---- MODULE Spec2Model ----
(***************************************************************************)
(* Ruh product-safety analysis pipeline: Fetcher -> Extractor -> Detector  *)
(* -> Validator/Matcher -> Harm Calculator.                                *)
(*                                                                         *)
(* Numbers in [0,1] (confidences, similarities) are kept as integer        *)
(* percentages or as exact fractions so that threshold comparisons are     *)
(* exact.  Strings are sequences of one-character strings.                 *)
(***************************************************************************)
EXTENDS Integers, Sequences, FiniteSets, TLC

\* ------------------------------------------------------------------ bounds
MaxNameLen == 4
MaxClaims == 2
MaxDetections == 2
MaxClock == 2
MaxDays == 47
MaxNavigations == 1
MaxMessages == 2

\* ------------------------------------------------------- string utilities
Min(x, y) == IF x <= y THEN x ELSE y
Max(x, y) == IF x >= y THEN x ELSE y

RECURSIVE SeqsUpTo(_, _)
SeqsUpTo(S, n) ==
    IF n = 0 THEN {<<>>}
    ELSE LET shorter == SeqsUpTo(S, n - 1)
         IN  shorter \cup {Append(s, c) : s \in {t \in shorter : Len(t) = n - 1}, c \in S}

\* str.lower() on the characters that occur in the model
Lower(c) ==
    CASE c = "S" -> "s"
      [] c = "P" -> "p"
      [] c = "F" -> "f"
      [] c = "O" -> "o"
      [] c = "A" -> "a"
      [] c = "C" -> "c"
      [] OTHER -> c

Punctuation == {".", "-"}
Whitespace == {" "}

RECURSIVE LStrip(_)
LStrip(s) == IF s # <<>> /\ Head(s) \in Whitespace THEN LStrip(Tail(s)) ELSE s

RECURSIVE RStrip(_)
RStrip(s) ==
    IF s # <<>> /\ s[Len(s)] \in Whitespace THEN RStrip(SubSeq(s, 1, Len(s) - 1)) ELSE s

\* normalize: lowercase, trim, strip punctuation
normalize(s) ==
    LET lowered == [i \in 1..Len(s) |-> Lower(s[i])]
        trimmed == RStrip(LStrip(lowered))
    IN  SelectSeq(trimmed, LAMBDA c : c \notin Punctuation)

\* length of the common run of a starting at i and b starting at j,
\* inside a[i..ahi] and b[j..bhi]
RECURSIVE RunLen(_, _, _, _, _, _)
RunLen(a, b, i, j, ahi, bhi) ==
    IF i > ahi \/ j > bhi THEN 0
    ELSE IF a[i] # b[j] THEN 0
    ELSE 1 + RunLen(a, b, i + 1, j + 1, ahi, bhi)

longer(cur, i, j, k) == IF k > cur[3] THEN <<i, j, k>> ELSE cur

\* scan of the start positions in ascending (i, j) order, keeping the first
\* block that is strictly longer than every block seen before it
RECURSIVE scanBlocks(_, _, _, _, _, _, _, _, _)
scanBlocks(a, b, alo, ahi, blo, bhi, i, j, cur) ==
    IF i > ahi THEN cur
    ELSE IF j > bhi THEN scanBlocks(a, b, alo, ahi, blo, bhi, i + 1, blo, cur)
    ELSE scanBlocks(a, b, alo, ahi, blo, bhi, i, j + 1,
                    longer(cur, i, j, RunLen(a, b, i, j, ahi, bhi)))

\* difflib.SequenceMatcher.find_longest_match: the longest block, and among
\* the longest the one starting earliest in a, then earliest in b
find_longest_match(a, b, alo, ahi, blo, bhi) ==
    scanBlocks(a, b, alo, ahi, blo, bhi, alo, blo, <<alo, blo, 0>>)

\* sum of the sizes of get_matching_blocks(): longest block, then recurse on
\* the pieces left and right of it
RECURSIVE matches(_, _, _, _, _, _)
RECURSIVE matchesAround(_, _, _, _, _, _, _)
matchesAround(a, b, alo, ahi, blo, bhi, m) ==
    IF m[3] = 0 THEN 0
    ELSE m[3]
         + matches(a, b, alo, m[1] - 1, blo, m[2] - 1)
         + matches(a, b, m[1] + m[3], ahi, m[2] + m[3], bhi)
matches(a, b, alo, ahi, blo, bhi) ==
    IF alo > ahi \/ blo > bhi THEN 0
    ELSE matchesAround(a, b, alo, ahi, blo, bhi,
                       find_longest_match(a, b, alo, ahi, blo, bhi))

\* SequenceMatcher(None, a, b).ratio() = 2*M/T as the exact fraction <<num, den>>
\* (1.0 when both strings are empty)
ratio(a, b) ==
    IF Len(a) + Len(b) = 0 THEN <<1, 1>>
    ELSE <<2 * matches(a, b, 1, Len(a), 1, Len(b)), Len(a) + Len(b)>>

FracLT(x, y) == x[1] * y[2] < y[1] * x[2]
FracEQ(x, y) == x[1] * y[2] = y[1] * x[2]
FracGE(x, y) == ~FracLT(x, y)

\* the similarity threshold 0.75
SIMILARITY_THRESHOLD == <<75, 100>>

\* ---------------------------------------------------------- Knowledge Base
\* Three seeded entries, one per category.  severity_default is 1..10.
KnowledgeBase ==
    << [canonical_name |-> <<"S", "o", "y">>,
        synonyms |-> {<<"s", "o", "y", "a">>},
        category |-> "allergen", severity_default |-> 7],
       [canonical_name |-> <<"P", "F", "O", "A">>,
        synonyms |-> {<<"C", "8">>},
        category |-> "persistent_chemical", severity_default |-> 10],
       [canonical_name |-> <<"B", "P", "A">>,
        synonyms |-> {},
        category |-> "toxin", severity_default |-> 6] >>

KBIndex == 1..Len(KnowledgeBase)
CanonicalNames == {KnowledgeBase[k].canonical_name : k \in KBIndex}

\* the strings of an entry a claim is compared with: canonical name and synonyms
candidates(e) == {normalize(e.canonical_name)} \cup {normalize(syn) : syn \in e.synonyms}
KBCandidates == [k \in KBIndex |-> candidates(KnowledgeBase[k])]

FracMax(Rs) == CHOOSE r \in Rs : \A r2 \in Rs : FracGE(r, r2)

\* similarity of the normalized name n against every entry
entryScores(n) ==
    LET f == [k \in KBIndex |-> FracMax({ratio(n, c) : c \in KBCandidates[k]})]
    IN  <<f[1], f[2], f[3]>>

IsSubstring(x, y) ==
    Len(x) > 0 /\ \E i \in 1..(Len(y) - Len(x) + 1) : SubSeq(y, i, i + Len(x) - 1) = x

isSubstringMatch(n, k) ==
    \E c \in KBCandidates[k] : IsSubstring(n, c) \/ IsSubstring(c, n)

pickEntry(n, sc, best) ==
    LET top  == {k \in KBIndex : FracEQ(sc[k], best)}
        subs == {k \in top : isSubstringMatch(n, k)}
        pick == IF subs # {} THEN subs ELSE top
    IN  CHOOSE k \in pick : \A k2 \in pick : k <= k2

bestOf(n, sc) == [index |-> pickEntry(n, sc, FracMax({sc[k] : k \in KBIndex})),
                  similarity |-> FracMax({sc[k] : k \in KBIndex})]

\* the best match of n in the Knowledge Base: highest similarity, ties broken
\* by preferring a substring match, then by Knowledge Base order
bestMatch(n) == bestOf(n, entryScores(n))

\* best similarity of a raw substance name against the Knowledge Base
bestSimilarity(name) == bestMatch(normalize(name)).similarity

isMatchGE(similarity) == FracGE(similarity, SIMILARITY_THRESHOLD)

\* `if similarity > 0.75`
isMatch(similarity) == FracLT(SIMILARITY_THRESHOLD, similarity)

\* --------------------------------------------------------------- Validator
\* validation mode of validate_and_filter_substances
VALIDATION_MODE == "log_only"

shipped(c) ==
    [canonical_name |-> c.substance_name, category |-> c.category_guess,
     severity |-> c.severity_guess, confidence |-> c.confidence]

acceptedKeepGuess(c, e) ==
    [canonical_name |-> e.canonical_name, category |-> c.category_guess,
     severity |-> c.severity_guess, confidence |-> c.confidence]

\* an accepted claim takes the entry's canonical name, category and severity
accepted(c, e) ==
    [canonical_name |-> e.canonical_name, category |-> e.category,
     severity |-> e.severity_default, confidence |-> c.confidence]

verdict(c, m) ==
    IF isMatch(m.similarity)
    THEN [detections |-> <<accepted(c, KnowledgeBase[m.index])>>, warnings |-> <<>>]
    ELSE [detections |-> IF VALIDATION_MODE = "log_only" THEN <<shipped(c)>> ELSE <<>>,
          warnings |-> <<[substance_name |-> c.substance_name]>>]

\* one claim: accepted against its best match, or rejected with a warning;
\* in log-only mode a rejected claim is logged and shipped unchanged
validateClaim(c) == verdict(c, bestMatch(normalize(c.substance_name)))

dedupKeepFirst(ds) ==
    LET keep(i) == \A j \in 1..Len(ds) :
                       (j < i) => ds[j].canonical_name # ds[i].canonical_name
        RECURSIVE build(_)
        build(i) == IF i > Len(ds) THEN <<>>
                    ELSE (IF keep(i) THEN <<ds[i]>> ELSE <<>>) \o build(i + 1)
    IN  build(1)

\* deduplication: per canonical name keep the detection with the highest
\* confidence (the earlier one on equal confidence)
dedup(ds) ==
    LET keep(i) == \A j \in 1..Len(ds) :
                       (j # i /\ ds[j].canonical_name = ds[i].canonical_name)
                       => (ds[j].confidence < ds[i].confidence
                           \/ (ds[j].confidence = ds[i].confidence /\ i < j))
        RECURSIVE build(_)
        build(i) == IF i > Len(ds) THEN <<>>
                    ELSE (IF keep(i) THEN <<ds[i]>> ELSE <<>>) \o build(i + 1)
    IN  build(1)

joinVerdicts(h, t) ==
    [detections |-> h.detections \o t.detections, warnings |-> h.warnings \o t.warnings]

RECURSIVE validateAll(_)
validateAll(claims) ==
    IF claims = <<>> THEN [detections |-> <<>>, warnings |-> <<>>]
    ELSE joinVerdicts(validateClaim(Head(claims)), validateAll(Tail(claims)))

dedupVerdicts(v) == [detections |-> dedup(v.detections), warnings |-> v.warnings]

validate_and_filter_substances(claims) == dedupVerdicts(validateAll(claims))

\* --------------------------------------------------------- Harm Calculator
ALLERGEN_MIN_POINTS == 5
ALLERGEN_MAX_POINTS == 30
PFAS_POINTS == 40
TOXIN_MIN_POINTS == 5
TOXIN_MAX_POINTS == 40
CONFIDENCE_PENALTY == 20
LOW_CONFIDENCE_PCT == 70
MIN_SCORE_WITH_CONCERNS == 25
MAX_SCORE == 100

severityPointsTenths(sev, lo, hi) == lo + (sev * (hi - lo)) \div 10

\* severity 1..10 mapped linearly into [lo, hi]
severityPoints(sev, lo, hi) == lo + ((sev - 1) * (hi - lo)) \div 9

detectionPoints(d) ==
    CASE d.category = "allergen" ->
             severityPoints(d.severity, ALLERGEN_MIN_POINTS, ALLERGEN_MAX_POINTS)
      [] d.category = "persistent_chemical" -> PFAS_POINTS
      [] OTHER -> severityPoints(d.severity, TOXIN_MIN_POINTS, TOXIN_MAX_POINTS)

categoryMultiplierAllRisky(category) ==
    CASE category = "pesticides" -> 140
      [] OTHER -> 115

\* category risk factor in percent
categoryMultiplier(category) ==
    CASE category = "pesticides" -> 140
      [] category = "cleaners" -> 115
      [] OTHER -> 100

RECURSIVE sumPoints(_)
sumPoints(ds) == IF ds = <<>> THEN 0 ELSE detectionPoints(Head(ds)) + sumPoints(Tail(ds))

confidencePenaltyBelowFull(overall_confidence) ==
    IF overall_confidence < 100 THEN CONFIDENCE_PENALTY ELSE 0

\* additional points when the confidence is below 0.7
confidencePenalty(overall_confidence) ==
    IF overall_confidence < LOW_CONFIDENCE_PCT THEN CONFIDENCE_PENALTY ELSE 0

capScoreBelowOnly(total) == Max(total, 0)
capScoreWraps(total) == Max(total, 0) % (MAX_SCORE + 1)

\* `max(min(total_score, 100), 0)`
capScore(total) == Max(Min(total, MAX_SCORE), 0)

minimumScoreNone(score, ds) == score

\* minimum score 25 if any concerns detected
minimumScore(score, ds) ==
    IF ds # <<>> THEN Max(score, MIN_SCORE_WITH_CONCERNS) ELSE score

\* the total before capping: points, category multiplier on the running
\* total (integer part), confidence penalty
rawTotal(ds, overall_confidence, category) ==
    (sumPoints(ds) * categoryMultiplier(category)) \div 100
    + confidencePenalty(overall_confidence)

\* HarmScoreCalculator.calculate
calculate(ds, overall_confidence, category) ==
    minimumScore(capScore(rawTotal(ds, overall_confidence, category)), ds)

\* ------------------------------------------------------------------- state
VARIABLES
    pc,                 \* position of the analyze request
    scraped,            \* result of try_scrape: NoScrape or a ScrapedProduct
    path,               \* "none" | "primary" | "fallback"
    extractCalls,       \* model completions issued by extract_product_data
    productRecord,      \* "none" | "record"
    agentState,         \* "Idle" | "Requesting" | "AwaitingTool" | "Done" | "Failed"
    iterations,         \* model round-trips of the Detector loop
    cost,               \* cumulative cost of the Detector loop
    partialClaims,      \* claims gathered before the final answer
    rawClaims,          \* claims handed to the Validator
    overall_confidence, \* analysis confidence in percent
    category,           \* product category
    detections,         \* detection list of the analysis
    warnings,           \* validation warnings logged
    harm_score,         \* NoScore until calculated
    error,              \* "none" | "ExtractionError" | "AgentBudgetExceeded"
    response,           \* what the caller receives
    mName,              \* matcher harness: raw substance name
    mVerdict,           \* matcher harness: "pending" | "accepted" | "rejected"
    cInput,             \* calculator harness: detections, confidence, category
    cScore,             \* calculator harness: NoScore until calculated
    cache,              \* product_analyses: url_hash -> row, NoEntry when absent
    clock,              \* time elapsed, in days
    rq,                 \* the analyze requests in flight, one record each
    lastPut,            \* url_hash -> the analysis of the last store that returned True
    connected,          \* the initiating caller is still connected
    idb,                \* extension IndexedDB store 'analyses': url -> CachedAnalysis
    dateNow,            \* Date.now() of the extension, in days
    getCall,            \* the CacheManager.get call in progress
    lastSet,            \* url -> the data of the last set(url, data)
    location,           \* window.location.href of the tab
    currentProductUrl,  \* content.ts state: the product URL, or Null
    triggerButton,      \* content.ts state: the trigger button, or NoButton
    pendingInit,        \* init calls scheduled (page load, setTimeout(init, 500))
    pendingInject,      \* injectTriggerButton calls awaiting IS_SIDE_PANEL_OPEN
    runs,               \* the startAnalysis calls, one record each
    tabAnalysis,        \* chrome.storage.local analysis_<tabId> of the tab
    navigations,        \* SPA navigations so far
    fetchCall,          \* one fetchReviews call: its locals, requests and result
    setCall,            \* one setTabAnalysis call: argument, existing and stored state
    storage,            \* chrome.storage.local: tabId -> analysis_<tabId> entry
    inFlight,           \* tabId -> messages sent by the tab, not yet handled
    tabs,               \* tabId -> "open" | "closing" (onRemoved pending) | "removed"
    lastComplete,       \* tabId -> payload of the last ANALYSIS_COMPLETE handled
    tabsWithOpenSidePanel, \* background.ts: tabs tracked as having an open panel
    pollingInterval,    \* background.ts: the polling interval is set
    poll,               \* the poll callback awaiting getContexts, with its answer
    panelContext,       \* tabId -> a SIDE_PANEL context for the tab exists
    openCall,           \* tabId -> state of the chrome.sidePanel.open call
    openResponse,       \* tabId -> last answer to OPEN_SIDE_PANEL
    closedReport,       \* tabId -> last SIDE_PANEL_STATE_CHANGED isOpen:false sent
    currentTabId,       \* side panel state
    currentTabState,    \* side panel state
    loading,            \* side panel state
    panelError,         \* side panel state 'error'
    reads,              \* storage reads started by loadTabState, not yet settled
    listening,          \* the listeners of onMount are registered
    lastRead            \* how the last storage read of the side panel settled

pipeVars == <<pc, scraped, path, extractCalls, productRecord, agentState, iterations,
              cost, partialClaims, rawClaims, overall_confidence, category,
              detections, warnings, harm_score, error, response>>
matchVars == <<mName, mVerdict>>
calcVars == <<cInput, cScore>>
cacheVars == <<cache, clock, rq, lastPut>>
cancelVars == <<connected>>
idbVars == <<idb, dateNow, getCall, lastSet>>
contentVars == <<location, currentProductUrl, triggerButton, pendingInit, pendingInject,
                 runs, tabAnalysis, navigations>>
reviewVars == <<fetchCall>>
setVars == <<setCall>>
tabVars == <<storage, inFlight, tabs, lastComplete>>
trackVars == <<tabsWithOpenSidePanel, pollingInterval, poll, panelContext, openCall,
               openResponse, closedReport>>
sideVars == <<currentTabId, currentTabState, loading, panelError, reads, listening,
              lastRead>>
uiVars == <<reviewVars, setVars, tabVars, trackVars, sideVars>>
extVars == <<cancelVars, idbVars, contentVars, uiVars>>
backendVars == <<pipeVars, matchVars, calcVars, cacheVars, cancelVars, uiVars>>
priorVars == <<pipeVars, matchVars, calcVars, cacheVars, cancelVars, idbVars, contentVars>>
vars == <<pipeVars, matchVars, calcVars, cacheVars, extVars>>

NoScrape == [ok |-> FALSE, confidence |-> 0, raw_html |-> "", failure |-> "none"]
NoScore == -1
NoResponse == [kind |-> "none"]

\* thresholds and budgets
SCRAPE_CONFIDENCE_THRESHOLD == 30
MAX_ITERATIONS == 5
COST_BUDGET == 8

\* input sets
ScrapeConfidences == {10, 30, 31}
OverallConfidences == {50, 90}
ProductCategories == {"pesticides"}
TurnCosts == {1, 5}

Soy == <<"S", "o", "y">>
ClaimPool ==
    { [substance_name |-> Soy, category_guess |-> "toxin",
       severity_guess |-> 2, confidence |-> 90],
      [substance_name |-> <<"s", "o", "y", "a">>, category_guess |-> "allergen",
       severity_guess |-> 7, confidence |-> 40],
      [substance_name |-> <<" ", "s", "o", "y", ".">>, category_guess |-> "allergen",
       severity_guess |-> 9, confidence |-> 90],
      [substance_name |-> <<"s", "o", "a", "a">>, category_guess |-> "allergen",
       severity_guess |-> 1, confidence |-> 60],
      [substance_name |-> <<"C", "8">>, category_guess |-> "allergen",
       severity_guess |-> 3, confidence |-> 70] }
PartialPool == {c \in ClaimPool : c.substance_name \in {Soy, <<"s", "o", "a", "a">>}}

ClaimLists == SeqsUpTo(ClaimPool, MaxClaims)

\* ---------------------------------------------------------------- pipeline
InitPipe(cats) ==
    /\ pc = "start"
    /\ scraped = NoScrape
    /\ path = "none"
    /\ extractCalls = 0
    /\ productRecord = "none"
    /\ agentState = "Idle"
    /\ iterations = 0
    /\ cost = 0
    /\ partialClaims = <<>>
    /\ rawClaims = <<>>
    /\ overall_confidence = 0
    /\ category \in cats
    /\ detections = <<>>
    /\ warnings = <<>>
    /\ harm_score = NoScore
    /\ error = "none"
    /\ response = NoResponse

InitMatchIdle == mName = <<>> /\ mVerdict = "pending"
InitCalcIdle == cInput = [detections |-> <<>>, confidence |-> 0, category |-> "none"]
                /\ cScore = NoScore
InitCacheIdle == cache = {} /\ clock = 0 /\ rq = <<>> /\ lastPut = <<>>
InitCancelIdle == connected = TRUE
InitIdbIdle == idb = <<>> /\ dateNow = 0 /\ getCall = <<>> /\ lastSet = <<>>
InitContentIdle ==
    /\ location = "none"
    /\ currentProductUrl = "none"
    /\ triggerButton = <<>>
    /\ pendingInit = 0
    /\ pendingInject = 0
    /\ runs = <<>>
    /\ tabAnalysis = <<>>
    /\ navigations = 0
InitReviewIdle == fetchCall = <<>>
InitSetIdle == setCall = <<>>
InitTabIdle == storage = <<>> /\ inFlight = <<>> /\ tabs = <<>> /\ lastComplete = <<>>
InitTrackIdle ==
    /\ tabsWithOpenSidePanel = {}
    /\ pollingInterval = FALSE
    /\ poll = <<>>
    /\ panelContext = <<>>
    /\ openCall = <<>>
    /\ openResponse = <<>>
    /\ closedReport = <<>>
InitSideIdle ==
    /\ currentTabId = 0
    /\ currentTabState = <<>>
    /\ loading = TRUE
    /\ panelError = "null"
    /\ reads = {}
    /\ listening = FALSE
    /\ lastRead = "none"
InitUiIdle ==
    InitReviewIdle /\ InitSetIdle /\ InitTabIdle /\ InitTrackIdle /\ InitSideIdle
InitExtIdle == InitCancelIdle /\ InitIdbIdle /\ InitContentIdle /\ InitUiIdle

Init ==
    /\ InitPipe(ProductCategories)
    /\ InitMatchIdle /\ InitCalcIdle /\ InitCacheIdle /\ InitExtIdle

\* what the request to the product page can end with
ScrapeFailures == {"timeout", "http_status"}

errorResultStale(failure) ==
    [ok |-> FALSE, confidence |-> 50, raw_html |-> "html", failure |-> failure]

\* httpx.TimeoutException and httpx.HTTPStatusError are handled: the scraper
\* returns an error result with confidence 0.0 and no content
errorResult(failure) ==
    [ok |-> FALSE, confidence |-> 0, raw_html |-> "", failure |-> failure]

\* AmazonScraper.scrape: the page with its confidence, or the error result
scrape(failure, confidence) ==
    IF failure = "none"
    THEN [ok |-> TRUE, confidence |-> confidence, raw_html |-> "html",
          failure |-> "none"]
    ELSE errorResult(failure)

\* scraper_service.try_scrape: a ScrapedProduct with its confidence, or
\* nothing when the scrape failed
TryScrape ==
    /\ pc = "start"
    /\ \/ scraped' = NoScrape
       \/ \E f \in ScrapeFailures : scraped' = scrape(f, 0)
       \/ \E c \in ScrapeConfidences : scraped' = scrape("none", c)
    /\ pc' = "scraped"
    /\ UNCHANGED <<path, extractCalls, productRecord, agentState, iterations, cost,
                   partialClaims, rawClaims, overall_confidence, category, detections,
                   warnings, harm_score, error, response, matchVars, calcVars, cacheVars, extVars>>

usePrimaryAlways(s) == s.ok

\* `IF scraped AND confidence > 0.3`
usePrimary(s) == s.ok /\ s.confidence > SCRAPE_CONFIDENCE_THRESHOLD

\* the branch on the scrape result: primary path (Extractor, then the agent
\* on the extracted product) or fallback path (the agent fetches the page)
Route ==
    /\ pc = "scraped"
    /\ IF usePrimary(scraped)
       THEN /\ path' = "primary"
            /\ pc' = "extracting"
            /\ UNCHANGED agentState
       ELSE /\ path' = "fallback"
            /\ pc' = "detecting"
            /\ agentState' = "Requesting"
    /\ UNCHANGED <<scraped, extractCalls, productRecord, iterations, cost,
                   partialClaims, rawClaims, overall_confidence, category, detections,
                   warnings, harm_score, error, response, matchVars, calcVars, cacheVars, extVars>>


PartialAnalysis ==
    [kind |-> "analysis", harm_score |-> NoScore, detections |-> <<>>,
     overall_confidence |-> 0]

mayStartAlways == TRUE

\* a step that starts a model call or a tool call is taken only while the
\* initiating caller is connected
mayStart == connected

\* the one outcome of a failed request
AnalysisFailed == [kind |-> "analysis_failed"]

\* claude_query.extract_product_data: one model completion, then the JSON
\* parse of its text; unparseable output fails the run
ExtractProductData ==
    /\ pc = "extracting" /\ mayStart
    /\ extractCalls' = extractCalls + 1
    /\ \E parses \in BOOLEAN :
         IF parses
         THEN /\ productRecord' = "record"
              /\ pc' = "detecting"
              /\ agentState' = "Requesting"
              /\ UNCHANGED <<error, response>>
         ELSE /\ productRecord' = "none"
              /\ pc' = "failed"
              /\ error' = "ExtractionError"
              /\ response' = AnalysisFailed
              /\ UNCHANGED agentState
    /\ UNCHANGED <<scraped, path, iterations, cost, partialClaims, rawClaims,
                   overall_confidence, category, detections, warnings, harm_score,
                   matchVars, calcVars, cacheVars, extVars>>

withinBudgetOffByOne == iterations <= MAX_ITERATIONS /\ cost <= COST_BUDGET

\* the loop may issue another model request
withinBudget == iterations < MAX_ITERATIONS /\ cost <= COST_BUDGET

\* Requesting -> ToolCall: the model asks for a tool
AgentToolCall ==
    /\ pc = "detecting" /\ agentState = "Requesting" /\ withinBudget /\ mayStart
    /\ iterations' = iterations + 1
    /\ \E t \in TurnCosts : cost' = cost + t
    /\ \/ UNCHANGED partialClaims
       \/ /\ Len(partialClaims) < MaxClaims
          /\ \E c \in PartialPool : partialClaims' = Append(partialClaims, c)
    /\ agentState' = "AwaitingTool"
    /\ UNCHANGED <<pc, scraped, path, extractCalls, productRecord, rawClaims,
                   overall_confidence, category, detections, warnings, harm_score,
                   error, response, matchVars, calcVars, cacheVars, extVars>>

\* the tool runs and its result is fed back into the conversation
AgentToolResult ==
    /\ pc = "detecting" /\ agentState = "AwaitingTool"
    /\ agentState' = "Requesting"
    /\ UNCHANGED <<pc, scraped, path, extractCalls, productRecord, iterations, cost,
                   partialClaims, rawClaims, overall_confidence, category, detections,
                   warnings, harm_score, error, response, matchVars, calcVars, cacheVars, extVars>>

\* Requesting -> FinalAnswer: the structured claim list is parsed
AgentFinalAnswer ==
    /\ pc = "detecting" /\ agentState = "Requesting" /\ withinBudget /\ mayStart
    /\ iterations' = iterations + 1
    /\ \E t \in TurnCosts : cost' = cost + t
    /\ \E cl \in ClaimLists : rawClaims' = cl
    /\ \E oc \in OverallConfidences : overall_confidence' = oc
    /\ partialClaims' = <<>>
    /\ agentState' = "Done"
    /\ pc' = "validating"
    /\ UNCHANGED <<scraped, path, extractCalls, productRecord, category, detections,
                   warnings, harm_score, error, response, matchVars, calcVars, cacheVars, extVars>>

claimsOnFailureKept(partial) == partial

\* what survives of the partial claims when the loop fails: nothing
claimsOnFailure(partial) == <<>>

\* iteration cap or cost budget exceeded: Failed, AgentBudgetExceeded
AgentBudgetExceeded ==
    /\ pc = "detecting" /\ agentState = "Requesting" /\ ~withinBudget
    /\ agentState' = "Failed"
    /\ rawClaims' = claimsOnFailure(partialClaims)
    /\ error' = "AgentBudgetExceeded"
    /\ pc' = "budget_exceeded"
    /\ UNCHANGED <<scraped, path, extractCalls, productRecord, iterations, cost,
                   partialClaims, overall_confidence, category, detections, warnings,
                   harm_score, response, matchVars, calcVars, cacheVars, extVars>>

\* the caller proceeds with zero detections (degraded result)
ProceedDegraded ==
    /\ pc = "budget_exceeded"
    /\ pc' = "validating"
    /\ UNCHANGED <<scraped, path, extractCalls, productRecord, agentState, iterations,
                   cost, partialClaims, rawClaims, overall_confidence, category,
                   detections, warnings, harm_score, error, response, matchVars,
                   calcVars, cacheVars, extVars>>

\* the caller fails the whole analysis
FailRequest ==
    /\ pc = "budget_exceeded"
    /\ pc' = "failed"
    /\ response' = AnalysisFailed
    /\ UNCHANGED <<scraped, path, extractCalls, productRecord, agentState, iterations,
                   cost, partialClaims, rawClaims, overall_confidence, category,
                   detections, warnings, harm_score, error, matchVars, calcVars, cacheVars, extVars>>

\* validate_and_filter_substances on the agent's claims
Validate ==
    /\ pc = "validating"
    /\ LET v == validate_and_filter_substances(rawClaims)
       IN  detections' = v.detections /\ warnings' = v.warnings
    /\ pc' = "scoring"
    /\ UNCHANGED <<scraped, path, extractCalls, productRecord, agentState, iterations,
                   cost, partialClaims, rawClaims, overall_confidence, category,
                   harm_score, error, response, matchVars, calcVars, cacheVars, extVars>>

\* HarmScoreCalculator.calculate(analysis_data)
Calculate ==
    /\ pc = "scoring"
    /\ harm_score' = calculate(detections, overall_confidence, category)
    /\ pc' = "scored"
    /\ UNCHANGED <<scraped, path, extractCalls, productRecord, agentState, iterations,
                   cost, partialClaims, rawClaims, overall_confidence, category,
                   detections, warnings, error, response, matchVars, calcVars, cacheVars, extVars>>

\* the AnalysisResponse is built and returned
Respond ==
    /\ pc = "scored"
    /\ response' = [kind |-> "analysis", harm_score |-> harm_score,
                    detections |-> detections,
                    overall_confidence |-> overall_confidence]
    /\ pc' = "done"
    /\ UNCHANGED <<scraped, path, extractCalls, productRecord, agentState, iterations,
                   cost, partialClaims, rawClaims, overall_confidence, category,
                   detections, warnings, harm_score, error, matchVars, calcVars, cacheVars, extVars>>

Next ==
    \/ TryScrape
    \/ Route
    \/ ExtractProductData
    \/ AgentToolCall
    \/ AgentToolResult
    \/ AgentFinalAnswer
    \/ AgentBudgetExceeded
    \/ ProceedDegraded
    \/ FailRequest
    \/ Validate
    \/ Calculate
    \/ Respond

Spec == Init /\ [][Next]_vars

\* ---------------------------------------------------------- Detector loop
\* the loop on its own, entered on the fallback path after a failed scrape
InitDetector ==
    /\ InitMatchIdle /\ InitCalcIdle /\ InitCacheIdle /\ InitExtIdle
    /\ pc = "detecting"
    /\ scraped = NoScrape
    /\ path = "fallback"
    /\ extractCalls = 0
    /\ productRecord = "none"
    /\ agentState = "Requesting"
    /\ iterations = 0
    /\ cost = 0
    /\ partialClaims = <<>>
    /\ rawClaims = <<>>
    /\ overall_confidence = 0
    /\ category \in ProductCategories
    /\ detections = <<>>
    /\ warnings = <<>>
    /\ harm_score = NoScore
    /\ error = "none"
    /\ response = NoResponse

NextDetector ==
    \/ AgentToolCall
    \/ AgentToolResult
    \/ AgentFinalAnswer
    \/ AgentBudgetExceeded

\* each iteration of the loop follows the previous one without stopping
SpecDetector == InitDetector /\ [][NextDetector]_vars /\ WF_vars(NextDetector)

\* ------------------------------------------------------------ cancellation
\* the initiating caller disconnects while the loop runs
Disconnect ==
    /\ pc = "detecting" /\ connected
    /\ connected' = FALSE
    /\ UNCHANGED <<pipeVars, matchVars, calcVars, cacheVars, idbVars, contentVars,
                   uiVars>>

\* at the next model-call or tool-call boundary the loop sees the
\* disconnection and stops instead of starting the next step
Cancel ==
    /\ pc = "detecting" /\ agentState = "Requesting" /\ ~connected
    /\ agentState' = "Failed"
    /\ rawClaims' = claimsOnFailure(partialClaims)
    /\ error' = "Cancelled"
    /\ pc' = "cancelled"
    /\ UNCHANGED <<scraped, path, extractCalls, productRecord, iterations, cost,
                   partialClaims, overall_confidence, category, detections, warnings,
                   harm_score, response, matchVars, calcVars, cacheVars, extVars>>

NextCancel ==
    \/ NextDetector
    \/ Disconnect
    \/ Cancel

SpecCancel == InitDetector /\ [][NextCancel]_vars

\* ---------------------------------------------------------- matcher harness
NameAlphabet == {"s", "o", "y", "a", "S", ".", " "}

InitMatch ==
    /\ InitPipe({"cosmetics"})
    /\ InitCalcIdle /\ InitCacheIdle /\ InitExtIdle
    /\ mName \in SeqsUpTo(NameAlphabet, MaxNameLen)
    /\ mVerdict = "pending"

harnessClaim(name) ==
    [substance_name |-> name, category_guess |-> "toxin", severity_guess |-> 1,
     confidence |-> 50]

\* the Validator applied to the single claim of the harness
MatchOne ==
    /\ mVerdict = "pending"
    /\ mVerdict' = IF validate_and_filter_substances(<<harnessClaim(mName)>>).warnings = <<>>
                   THEN "accepted" ELSE "rejected"
    /\ UNCHANGED <<mName, pipeVars, calcVars, cacheVars, extVars>>

NextMatch == MatchOne

SpecMatch == InitMatch /\ [][NextMatch]_vars

\* ------------------------------------------------------- calculator harness
CalcDetections ==
    {[category |-> "allergen", severity |-> v] : v \in 1..10}
    \cup {[category |-> "persistent_chemical", severity |-> 10]}
    \cup {[category |-> "toxin", severity |-> v] : v \in {1, 5, 10}}
CalcConfidences == {0, 69, 70, 90, 95, 100}
CalcCategories == {"cosmetics", "cleaners", "pesticides"}

InitCalc ==
    /\ InitPipe({"cosmetics"})
    /\ InitMatchIdle /\ InitCacheIdle /\ InitExtIdle
    /\ cInput \in [detections : SeqsUpTo(CalcDetections, MaxDetections),
                   confidence : CalcConfidences,
                   category : CalcCategories]
    /\ cScore = NoScore

\* the Harm Calculator applied to the input of the harness
CalcOne ==
    /\ cScore = NoScore
    /\ cScore' = calculate(cInput.detections, cInput.confidence, cInput.category)
    /\ UNCHANGED <<cInput, pipeVars, matchVars, cacheVars, extVars>>

NextCalc == CalcOne

SpecCalc == InitCalc /\ [][NextCalc]_vars


\* ------------------------------------------------------------ analyze + cache
\* POST /api/analyze with the product_analyses cache, for requests that run
\* at the same time.  The stages of the pipeline appear by their outcome.
Requests == {"r1", "r2"}

\* a product URL: absolute or not, the product page, the query string
URLs ==
    { [absolute |-> TRUE, page |-> "/dp/B01", query |-> ""],
      [absolute |-> TRUE, page |-> "/dp/B01", query |-> "utm_source=mail"],
      [absolute |-> FALSE, page |-> "/dp/B01", query |-> ""] }
NoURL == [absolute |-> FALSE, page |-> "", query |-> ""]

wellFormed(url) == url.absolute
withoutTracking(url) == [url EXCEPT !.query = ""]

\* hashlib.sha256(url.encode()).hexdigest(): the digest of the URL as given;
\* distinct URLs have distinct digests
generate_url_hash(url) == <<"sha256", url.absolute, url.page, url.query>>
NoHash == <<"none">>
Hashes == {generate_url_hash(u) : u \in URLs}

\* the ProductAnalysis a run can build
Analyses ==
    { [overall_score |-> 75, allergens_detected |-> <<"Soy">>],
      [overall_score |-> 35, allergens_detected |-> <<"Soy", "PFOA">>] }
DegradedAnalysis == [overall_score |-> 100, allergens_detected |-> <<>>]
NoAnalysis == [overall_score |-> -1, allergens_detected |-> <<>>]

NoEntry == [found |-> FALSE, url_hash |-> NoHash, product_url |-> NoURL,
            analysis |-> NoAnalysis, analyzed_at |-> 0]

\* db_data = {url_hash, product_url, product_name, ...}
db_data(url_hash, url, analysis, now) ==
    [found |-> TRUE, url_hash |-> url_hash, product_url |-> url,
     analysis |-> analysis, analyzed_at |-> now]

getAnyRow(c, url_hash) ==
    IF c = {} THEN NoEntry ELSE CHOOSE row \in c : TRUE

\* select('*').eq('url_hash', url_hash): data[0] if exists else None
get_cached_analysis(c, url_hash) ==
    LET data == {row \in c : row.url_hash = url_hash}
    IN  IF data = {} THEN NoEntry ELSE CHOOSE row \in data : TRUE

insertOnly(c, row) == c \cup {row}

\* upsert(db_data): the row of this url_hash is replaced as a whole
upsert(c, row) == {x \in c : x.url_hash # row.url_hash} \cup {row}

cacheHitNever(cached) == FALSE

\* `IF CACHE HIT`
cacheHit(cached) == cached.found

retainedUntilExpiry(c, now) == {row \in c : now - row.analyzed_at < 1}

\* the backend cache has no TTL: time passing removes nothing
retained(c, now) == c

pcAfterFatalStores == "storing"

\* a fatal error ends the request: nothing after it runs
pcAfterFatal == "failed"

responseOnlyIfStored(stored, analysis) ==
    IF stored THEN [kind |-> "analysis", analysis |-> analysis, cached |-> FALSE]
    ELSE [kind |-> "analysis_failed", analysis |-> NoAnalysis, cached |-> FALSE]

\* store_analysis returns True or False; the response is built either way
responseAfterStore(stored, analysis) ==
    [kind |-> "analysis", analysis |-> analysis, cached |-> FALSE]

NewRequest ==
    [pc |-> "idle", url |-> NoURL, force_refresh |-> FALSE, url_hash |-> NoHash,
     cached |-> NoEntry, seen |-> {}, ran |-> {}, error |-> "none",
     degraded |-> FALSE, analysis |-> NoAnalysis, stored |-> FALSE,
     replaced |-> FALSE,
     response |-> [kind |-> "none", analysis |-> NoAnalysis, cached |-> FALSE]]

InitCache ==
    /\ InitPipe({"cosmetics"}) /\ InitMatchIdle /\ InitCalcIdle /\ InitExtIdle
    /\ cache = {}
    /\ clock = 0
    /\ lastPut = [h \in Hashes |-> NoAnalysis]
    /\ rq = [r \in Requests |-> NewRequest]

\* the request arrives with its product_url and force_refresh; the URL is
\* taken as it is
Receive(r) ==
    /\ rq[r].pc = "idle"
    /\ \E u \in URLs, f \in BOOLEAN :
           rq' = [rq EXCEPT ![r].url = u, ![r].force_refresh = f,
                            ![r].pc = "received"]
    /\ UNCHANGED <<cache, clock, lastPut, pipeVars, matchVars, calcVars, extVars>>

\* generate_url_hash, get_cached_analysis, and the cached response on a hit
Lookup(r) ==
    /\ rq[r].pc = "received"
    /\ LET h == generate_url_hash(rq[r].url)
           cached == IF rq[r].force_refresh THEN NoEntry
                     ELSE get_cached_analysis(cache, h)
           lookedUp == IF rq[r].force_refresh THEN {} ELSE {"CacheLookup"}
       IN  rq' = [rq EXCEPT
                    ![r].url_hash = h,
                    ![r].cached = cached,
                    ![r].seen = {row.product_url : row \in cache},
                    ![r].ran = lookedUp,
                    ![r].pc = IF cacheHit(cached) THEN "done" ELSE "miss",
                    ![r].response =
                        IF cacheHit(cached)
                        THEN [kind |-> "analysis", analysis |-> cached.analysis,
                              cached |-> TRUE]
                        ELSE @]
    /\ UNCHANGED <<cache, clock, lastPut, pipeVars, matchVars, calcVars, extVars>>

\* try_scrape, then the primary or the fallback path
Fetch(r) ==
    /\ rq[r].pc = "miss"
    /\ \E primary \in BOOLEAN :
           rq' = [rq EXCEPT ![r].ran = @ \cup {"Fetcher"},
                            ![r].pc = IF primary THEN "extracting" ELSE "detecting"]
    /\ UNCHANGED <<cache, clock, lastPut, pipeVars, matchVars, calcVars, extVars>>

\* extract_product_data: a product record, or ExtractionError
Extract(r) ==
    /\ rq[r].pc = "extracting"
    /\ \/ rq' = [rq EXCEPT ![r].ran = @ \cup {"Extractor"}, ![r].pc = "detecting"]
       \/ rq' = [rq EXCEPT ![r].ran = @ \cup {"Extractor"},
                           ![r].error = "ExtractionError",
                           ![r].pc = pcAfterFatal,
                           ![r].response = [kind |-> "analysis_failed",
                                            analysis |-> NoAnalysis,
                                            cached |-> FALSE]]
    /\ UNCHANGED <<cache, clock, lastPut, pipeVars, matchVars, calcVars, extVars>>

\* the agent loop: claims, or AgentBudgetExceeded, after which the caller
\* proceeds with zero detections or fails the request
Detect(r) ==
    /\ rq[r].pc = "detecting"
    /\ \/ rq' = [rq EXCEPT ![r].ran = @ \cup {"Detector"}, ![r].pc = "validating"]
       \/ rq' = [rq EXCEPT ![r].ran = @ \cup {"Detector"},
                           ![r].error = "AgentBudgetExceeded",
                           ![r].degraded = TRUE,
                           ![r].pc = "validating"]
       \/ rq' = [rq EXCEPT ![r].ran = @ \cup {"Detector"},
                           ![r].error = "AgentBudgetExceeded",
                           ![r].pc = pcAfterFatal,
                           ![r].response = [kind |-> "analysis_failed",
                                            analysis |-> NoAnalysis,
                                            cached |-> FALSE]]
    /\ UNCHANGED <<cache, clock, lastPut, pipeVars, matchVars, calcVars, extVars>>

\* validate_and_filter_substances, HarmScoreCalculator.calculate and the
\* ProductAnalysis built from them
Analyze(r) ==
    /\ rq[r].pc = "validating"
    /\ \E a \in Analyses :
           rq' = [rq EXCEPT ![r].ran = @ \cup {"Validator", "Calculator"},
                            ![r].analysis = IF rq[r].degraded THEN DegradedAnalysis
                                            ELSE a,
                            ![r].pc = "storing"]
    /\ UNCHANGED <<cache, clock, lastPut, pipeVars, matchVars, calcVars, extVars>>

\* db.store_analysis(url_hash, product_url, analysis_response), True or False
\* on error, then the AnalysisResponse is returned
Store(r) ==
    /\ rq[r].pc = "storing"
    /\ \E ok \in BOOLEAN :
         LET row == db_data(rq[r].url_hash, rq[r].url, rq[r].analysis, clock)
         IN  /\ cache' = IF ok THEN upsert(cache, row) ELSE cache
             /\ lastPut' = IF ok THEN [lastPut EXCEPT ![rq[r].url_hash] = rq[r].analysis]
                           ELSE lastPut
             /\ rq' = [rq EXCEPT
                         ![r].ran = @ \cup {"CacheWrite"},
                         ![r].stored = ok,
                         ![r].replaced =
                             ok /\ cacheHit(get_cached_analysis(cache, rq[r].url_hash)),
                         ![r].response = responseAfterStore(ok, rq[r].analysis),
                         ![r].pc = "done"]
    /\ UNCHANGED <<clock, pipeVars, matchVars, calcVars, extVars>>

\* a day passes
Tick ==
    /\ clock < MaxClock
    /\ clock' = clock + 1
    /\ cache' = retained(cache, clock + 1)
    /\ UNCHANGED <<rq, lastPut, pipeVars, matchVars, calcVars, extVars>>

NextCache ==
    \/ \E r \in Requests : Receive(r)
    \/ \E r \in Requests : Lookup(r)
    \/ \E r \in Requests : Fetch(r)
    \/ \E r \in Requests : Extract(r)
    \/ \E r \in Requests : Detect(r)
    \/ \E r \in Requests : Analyze(r)
    \/ \E r \in Requests : Store(r)
    \/ Tick

SpecCache == InitCache /\ [][NextCache]_vars

\* ---------------------------------------------- extension: CacheManager
\* JavaScript null and undefined
Null == "null"
Undefined == "undefined"

\* 30 days, in days
CACHE_TTL == 30

CachedURLs == {"url1", "url2"}
CachedData == {"data1", "data2"}

\* what db.get resolves to for a key that is not in the store
NoCached == [found |-> FALSE, url |-> Null, data |-> Null, timestamp |-> 0]

\* how far the clock moves in one step, in days
DaySteps == {15, 16}

IdleGet == [phase |-> "idle", url |-> Null, cached |-> NoCached, age |-> 0,
            result |-> Null, lastSetAtRead |-> Null]

expiredNever(age) == FALSE

\* if (age > CACHE_TTL)
expired(age) == age > CACHE_TTL

InitIdb ==
    /\ InitPipe({"cosmetics"})
    /\ InitMatchIdle /\ InitCalcIdle /\ InitCacheIdle
    /\ InitCancelIdle /\ InitContentIdle /\ InitUiIdle
    /\ idb = [u \in CachedURLs |-> NoCached]
    /\ dateNow = 0
    /\ getCall = IdleGet
    /\ lastSet = [u \in CachedURLs |-> Null]

\* set(url, data): put {url, data, timestamp: Date.now()} under the key url
CacheSet(url, data) ==
    /\ idb' = [idb EXCEPT ![url] = [found |-> TRUE, url |-> url, data |-> data,
                                    timestamp |-> dateNow]]
    /\ lastSet' = [lastSet EXCEPT ![url] = data]
    /\ UNCHANGED <<dateNow, getCall, backendVars, contentVars>>

\* get(url), up to the resolution of db.get(STORE_NAME, url)
CacheGetRead(url) ==
    /\ getCall.phase \in {"idle", "returned"}
    /\ getCall' = [phase |-> "read", url |-> url, cached |-> idb[url], age |-> 0,
                   result |-> Null, lastSetAtRead |-> lastSet[url]]
    /\ UNCHANGED <<idb, dateNow, lastSet, backendVars, contentVars>>

\* get(url) from there: no entry returns null, an expired entry goes on to
\* this.delete(url), any other entry returns cached.data
CacheGetCheck ==
    /\ getCall.phase = "read"
    /\ LET cached == getCall.cached
           age == dateNow - cached.timestamp
       IN  getCall' =
               IF ~cached.found
               THEN [getCall EXCEPT !.phase = "returned", !.result = Null]
               ELSE IF expired(age)
               THEN [getCall EXCEPT !.phase = "deleting", !.age = age]
               ELSE [getCall EXCEPT !.phase = "returned", !.age = age,
                                    !.result = cached.data]
    /\ UNCHANGED <<idb, dateNow, lastSet, backendVars, contentVars>>

\* delete(url) of the expired entry, then return null
CacheGetDelete ==
    /\ getCall.phase = "deleting"
    /\ idb' = [idb EXCEPT ![getCall.url] = NoCached]
    /\ getCall' = [getCall EXCEPT !.phase = "returned", !.result = Null]
    /\ UNCHANGED <<dateNow, lastSet, backendVars, contentVars>>

\* time passes
DaysPass ==
    /\ \E d \in DaySteps : dateNow + d <= MaxDays /\ dateNow' = dateNow + d
    /\ UNCHANGED <<idb, getCall, lastSet, backendVars, contentVars>>

NextIdb ==
    \/ \E url \in CachedURLs, data \in CachedData : CacheSet(url, data)
    \/ \E url \in CachedURLs : CacheGetRead(url)
    \/ CacheGetCheck
    \/ CacheGetDelete
    \/ DaysPass

SpecIdb == InitIdb /\ [][NextIdb]_vars

\* ------------------------------------------- extension: content script
\* window.location.href as hostname and path segments
ProductPage == [hostname |-> "www.amazon.com", pathname |-> <<"dp", "B081PK2PFG">>]
OtherProductPage == [hostname |-> "www.amazon.ca", pathname |-> <<"gp", "product", "new">>]
SearchPage == [hostname |-> "www.amazon.com", pathname |-> <<"s">>]
Pages == {ProductPage, OtherProductPage, SearchPage}

\* currentProductUrl = null
NullUrl == [hostname |-> "", pathname |-> <<>>]

AmazonHostnames == {"www.amazon.com", "www.amazon.ca"}
ASINs == {"B081PK2PFG"}

\* pathname.includes('/dp/') || pathname.includes('/gp/product/')
hasDP(pathname) ==
    \/ \E i \in 1..(Len(pathname) - 1) : pathname[i] = "dp"
    \/ \E i \in 1..(Len(pathname) - 2) :
           pathname[i] = "gp" /\ pathname[i + 1] = "product"

isAmazonProductPage(url) == url.hostname \in AmazonHostnames /\ hasDP(url.pathname)

\* the ten characters after /dp/ or /gp/product/, or null
extractASIN(url) ==
    IF \E i \in 1..(Len(url.pathname) - 1) :
                /\ url.pathname[i] \in {"dp", "product"}
                /\ url.pathname[i + 1] \in ASINs
    THEN CHOOSE a \in ASINs : \E i \in 1..(Len(url.pathname) - 1) :
                                   url.pathname[i + 1] = a
    ELSE Null

OverallScores == {0, 40, 100}

\* what response.json() resolves to: null, an object without 'analysis',
\* or an AnalysisResponse
NullBody == [json |-> "null", hasAnalysis |-> FALSE, overall_score |-> 0]
NoAnalysisBody == [json |-> "object", hasAnalysis |-> FALSE, overall_score |-> 0]
ResponseBodies ==
    {NullBody, NoAnalysisBody}
        \cup {[json |-> "object", hasAnalysis |-> TRUE, overall_score |-> s] :
                  s \in OverallScores}

\* fetch rejects, the status is not ok, or the body is not JSON
ApiFailures == {"network_error", "http_error", "invalid_json"}

NoButton == [exists |-> FALSE, harmScore |-> 0, analysisOf |-> NullUrl, attached |-> FALSE]
\* harmScore: null is the empty sequence, a number n is <<n>>
NullScore == <<>>

NoTabAnalysis == [status |-> "idle", productUrl |-> NullUrl, data |-> NullBody,
                  error |-> Null, harmScore |-> NullScore]

getHarmScore(overallScore) == 100 - overallScore

\* ANALYSIS_ERROR carries 'error: errorMessage', the other messages no error
message(type, productUrl, data) ==
    [type |-> type, productUrl |-> productUrl, data |-> data,
     error |-> IF type = "ANALYSIS_ERROR" THEN "Analysis failed" ELSE Undefined]

\* message.data?.analysis?.overall_score ? 100 - ... : null
storedHarmScore(data) ==
    IF data.json = "object" /\ data.hasAnalysis /\ data.overall_score # 0
    THEN <<100 - data.overall_score>>
    ELSE NullScore

\* the background worker's onMessage listener: the record it stores under
\* analysis_<tabId>
errorEntryScored(m) ==
    [status |-> "error", productUrl |-> m.productUrl, data |-> NullBody,
     error |-> m.error, harmScore |-> <<100>>]

\* the record stored on ANALYSIS_ERROR
errorEntry(m) ==
    [status |-> "error", productUrl |-> m.productUrl, data |-> NullBody,
     error |-> m.error, harmScore |-> NullScore]

onMessage(m) ==
    CASE m.type = "ANALYSIS_COMPLETE" ->
             [status |-> "complete", productUrl |-> m.productUrl, data |-> m.data,
              error |-> Null, harmScore |-> storedHarmScore(m.data)]
      [] m.type = "ANALYSIS_ERROR" -> errorEntry(m)
      [] OTHER ->
             [status |-> "loading", productUrl |-> m.productUrl, data |-> NullBody,
              error |-> Null, harmScore |-> NullScore]

InitContent ==
    /\ InitPipe({"cosmetics"})
    /\ InitMatchIdle /\ InitCalcIdle /\ InitCacheIdle
    /\ InitCancelIdle /\ InitIdbIdle /\ InitUiIdle
    /\ location \in Pages
    /\ currentProductUrl = NullUrl
    /\ triggerButton = NoButton
    /\ pendingInit = 1
    /\ pendingInject = 0
    /\ runs = <<>>
    /\ tabAnalysis = NoTabAnalysis
    /\ navigations = 0

\* init(), and startAnalysis() up to its first await: ANALYSIS_STARTED is
\* sent, then fetchReviews is awaited if the URL has an ASIN, else the API
\* request is built and sent
RunInit ==
    /\ pendingInit > 0
    /\ pendingInit' = pendingInit - 1
    /\ IF isAmazonProductPage(location)
       THEN LET started == message("ANALYSIS_STARTED", location, NullBody)
                hasAsin == extractASIN(location) # Null
            IN  /\ currentProductUrl' = location
                /\ runs' = Append(runs,
                       [stage |-> IF hasAsin THEN "reviews" ELSE "api",
                        requestUrl |-> IF hasAsin THEN NullUrl ELSE location,
                        sent |-> <<started>>])
                /\ tabAnalysis' = onMessage(started)
       ELSE UNCHANGED <<currentProductUrl, runs, tabAnalysis>>
    /\ UNCHANGED <<location, triggerButton, pendingInject, navigations, backendVars,
                   idbVars>>

\* cleanup(): the button is removed, the product URL is forgotten
cleanup == triggerButton' = NoButton /\ currentProductUrl' = NullUrl

\* SPA navigation: the URL changes, the MutationObserver callback runs
\* cleanup() and schedules init
Navigate(page) ==
    /\ navigations < MaxNavigations
    /\ page # location
    /\ location' = page
    /\ cleanup
    /\ pendingInit' = pendingInit + 1
    /\ navigations' = navigations + 1
    /\ UNCHANGED <<pendingInject, runs, tabAnalysis, backendVars, idbVars>>

\* startAnalysis() resumes after fetchReviews: the request body is built
\* with product_url: currentProductUrl and the API is called
ReviewsDone(i) ==
    /\ runs[i].stage = "reviews"
    /\ runs' = [runs EXCEPT ![i].stage = "api", ![i].requestUrl = currentProductUrl]
    /\ UNCHANGED <<location, currentProductUrl, triggerButton, pendingInit,
                   pendingInject, tabAnalysis, navigations, backendVars, idbVars>>

\* the catch block: ANALYSIS_ERROR with productUrl: currentProductUrl
sendError(i, sentBefore) ==
    LET failed == message("ANALYSIS_ERROR", currentProductUrl, NullBody)
    IN  /\ runs' = [runs EXCEPT ![i].stage = "done",
                                ![i].sent = Append(sentBefore, failed)]
        /\ tabAnalysis' = onMessage(failed)

\* startAnalysis() resumes after fetch and response.json(), to its end
ApiResponse(i) ==
    /\ runs[i].stage = "api"
    /\ \/ /\ \E failure \in ApiFailures : sendError(i, runs[i].sent)
          /\ UNCHANGED <<triggerButton, pendingInject>>
       \/ \E data \in ResponseBodies :
            LET complete == message("ANALYSIS_COMPLETE", currentProductUrl, data)
            IN  IF data.json = "null"
                THEN \* data.reviews_stored throws
                     /\ sendError(i, runs[i].sent)
                     /\ UNCHANGED <<triggerButton, pendingInject>>
                ELSE IF ~data.hasAnalysis
                THEN \* data.analysis.overall_score throws after the send
                     /\ sendError(i, Append(runs[i].sent, complete))
                     /\ UNCHANGED <<triggerButton, pendingInject>>
                ELSE /\ runs' = [runs EXCEPT ![i].stage = "done",
                                             ![i].sent = Append(runs[i].sent, complete)]
                     /\ tabAnalysis' = onMessage(complete)
                     /\ IF triggerButton.exists
                        THEN UNCHANGED <<triggerButton, pendingInject>>
                        ELSE /\ triggerButton' =
                                    [exists |-> TRUE,
                                     harmScore |-> 100 - data.overall_score,
                                     analysisOf |-> runs[i].requestUrl,
                                     attached |-> FALSE]
                             /\ pendingInject' = pendingInject + 1
    /\ UNCHANGED <<location, currentProductUrl, pendingInit, navigations, backendVars,
                   idbVars>>

\* injectTriggerButton() resumes after IS_SIDE_PANEL_OPEN: the button held
\* by triggerButton is appended to the body, unless the message was
\* rejected or cleanup() has set triggerButton to null in the meantime
InjectResume ==
    /\ pendingInject > 0
    /\ pendingInject' = pendingInject - 1
    /\ \E answered \in BOOLEAN :
         IF answered /\ triggerButton.exists
         THEN triggerButton' = [triggerButton EXCEPT !.attached = TRUE]
         ELSE UNCHANGED triggerButton
    /\ UNCHANGED <<location, currentProductUrl, pendingInit, runs, tabAnalysis,
                   navigations, backendVars, idbVars>>

NextContent ==
    \/ RunInit
    \/ \E page \in Pages : Navigate(page)
    \/ \E i \in 1..Len(runs) : ReviewsDone(i)
    \/ \E i \in 1..Len(runs) : ApiResponse(i)
    \/ InjectResume

SpecContent == InitContent /\ [][NextContent]_vars

\* ------------------------------------------------ extension: fetchReviews
\* the pages option: <<>> when it is not given, <<n>> for the number n
PagesOptions == {<<>>} \cup {<<n>> : n \in {-3, 0, 1, 2, 5, 10, 11, 25}}

\* const { pages = 5, ... } = options
pagesOrDefault(option) == IF option = <<>> THEN 5 ELSE option[1]

maxPagesUnclamped(pages) == Max(pages, 1)

\* Math.min(Math.max(pages, 1), 10)
maxPagesOf(pages) == Min(Max(pages, 1), 10)

\* html as the sequence of the REVIEWS_PAGE_<n> markers it holds
failureResultUnsuccessful(allHtml, pagesLoaded) ==
    [html |-> allHtml, success |-> FALSE, pagesLoaded |-> pagesLoaded,
     error |-> "network_error"]

\* the result on a response that is not ok, or on an exception
failureResult(allHtml, pagesLoaded) ==
    [html |-> allHtml, success |-> pagesLoaded > 0, pagesLoaded |-> pagesLoaded,
     error |-> "network_error"]

\* the result on a first page without reviews
noReviewsResult == [html |-> <<>>, success |-> FALSE, pagesLoaded |-> 0,
                    error |-> "no_reviews"]

\* the result after the loop
finalResult(allHtml, pagesLoaded) ==
    [html |-> allHtml, success |-> pagesLoaded > 0, pagesLoaded |-> pagesLoaded,
     error |-> Undefined]

NoResult == [html |-> <<>>, success |-> FALSE, pagesLoaded |-> 0, error |-> "pending"]

\* what a page fetch can come to
FetchOutcomes == {"rejected", "not_ok", "no_reviews", "reviews"}

InitReviews ==
    /\ InitPipe({"cosmetics"})
    /\ InitMatchIdle /\ InitCalcIdle /\ InitCacheIdle
    /\ InitCancelIdle /\ InitIdbIdle /\ InitContentIdle
    /\ InitSetIdle /\ InitTabIdle /\ InitTrackIdle /\ InitSideIdle
    /\ \E option \in PagesOptions :
         fetchCall = [option |-> option,
                      maxPages |-> maxPagesOf(pagesOrDefault(option)),
                      page |-> 1, allHtml |-> <<>>, pagesLoaded |-> 0,
                      requests |-> <<>>, phase |-> "ready", result |-> NoResult]

\* the loop body up to 'await fetch(url, ...)', at the start of the call or
\* after the delay between two pages
PageRequest ==
    /\ fetchCall.phase = "ready"
    /\ fetchCall' = [fetchCall EXCEPT !.phase = "awaiting",
                                      !.requests = Append(@, fetchCall.page)]
    /\ UNCHANGED <<priorVars, setVars, tabVars, trackVars, sideVars>>

returns(result) == fetchCall' = [fetchCall EXCEPT !.phase = "returned", !.result = result]

\* the rest of the loop body, and what follows the loop when it ends here
PageResponse ==
    /\ fetchCall.phase = "awaiting"
    /\ \E outcome \in FetchOutcomes :
         LET allHtml == fetchCall.allHtml
             pagesLoaded == fetchCall.pagesLoaded
             page == fetchCall.page
         IN  CASE outcome \in {"rejected", "not_ok"} ->
                      returns(failureResult(allHtml, pagesLoaded))
               [] outcome = "no_reviews" ->
                      IF page = 1
                      THEN returns(noReviewsResult)
                      ELSE returns(finalResult(allHtml, pagesLoaded))
               [] OTHER ->
                      IF page < fetchCall.maxPages
                      THEN fetchCall' = [fetchCall EXCEPT
                                             !.allHtml = Append(allHtml, page),
                                             !.pagesLoaded = pagesLoaded + 1,
                                             !.page = page + 1,
                                             !.phase = "ready"]
                      ELSE fetchCall' = [fetchCall EXCEPT
                                             !.allHtml = Append(allHtml, page),
                                             !.pagesLoaded = pagesLoaded + 1,
                                             !.page = page + 1,
                                             !.phase = "returned",
                                             !.result = finalResult(Append(allHtml, page),
                                                                    pagesLoaded + 1)]
    /\ UNCHANGED <<priorVars, setVars, tabVars, trackVars, sideVars>>

NextReviews ==
    \/ PageRequest
    \/ PageResponse

\* every fetch and every delay settles
SpecReviews == InitReviews /\ [][NextReviews]_vars /\ WF_vars(NextReviews)

\* ---------------------------------------------- extension: setTabAnalysis
\* a field of the Partial<TabAnalysisState> argument: absent, null or a value
FieldNames == {"productUrl", "status", "data", "error", "harmScore"}

\* data, error and harmScore may be null, productUrl and status may not
Nullable == {"data", "error", "harmScore"}
PatchValues(f) == IF f \in Nullable THEN {Undefined, Null, "new"} ELSE {Undefined, "new"}
StoredValues(f) == IF f \in Nullable THEN {Null, "old"} ELSE {"old"}
Patches == {p \in [FieldNames -> {Undefined, Null, "new"}] :
                \A f \in FieldNames : p[f] \in PatchValues(f)}
StoredStates == {e \in [FieldNames -> {Null, "old"}] :
                     \A f \in FieldNames : e[f] \in StoredValues(f)}

\* the entry read by getTabAnalysis: null, or a stored state
NoExisting == [f \in FieldNames |-> Undefined]

\* the default of a field when neither the argument nor the entry has it
fieldDefault(f) ==
    CASE f = "productUrl" -> ""
      [] f = "status" -> "idle"
      [] OTHER -> Null

nullish(v) == v \in {Undefined, Null}

coalesce(a, b) == IF nullish(a) THEN b ELSE a

\* state.f ?? existing?.f ?? default
newState(state, existing) ==
    [f \in FieldNames |-> coalesce(state[f], coalesce(existing[f], fieldDefault(f)))]

InitSet ==
    /\ InitPipe({"cosmetics"})
    /\ InitMatchIdle /\ InitCalcIdle /\ InitCacheIdle
    /\ InitCancelIdle /\ InitIdbIdle /\ InitContentIdle
    /\ InitReviewIdle /\ InitTabIdle /\ InitTrackIdle /\ InitSideIdle
    /\ \E state \in Patches :
       \E stored \in {NoExisting} \cup StoredStates :
         setCall = [state |-> state, inStorage |-> stored, existing |-> NoExisting,
                    phase |-> "called"]

\* const existing = await getTabAnalysis(tabId)
SetRead ==
    /\ setCall.phase = "called"
    /\ setCall' = [setCall EXCEPT !.existing = setCall.inStorage, !.phase = "read"]
    /\ UNCHANGED <<priorVars, reviewVars, tabVars, trackVars, sideVars>>

\* await chrome.storage.local.set({ [key]: newState })
SetWrite ==
    /\ setCall.phase = "read"
    /\ setCall' = [setCall EXCEPT !.inStorage = newState(setCall.state, setCall.existing),
                                  !.phase = "completed"]
    /\ UNCHANGED <<priorVars, reviewVars, tabVars, trackVars, sideVars>>

NextSet ==
    \/ SetRead
    \/ SetWrite

SpecSet == InitSet /\ [][NextSet]_vars

\* ------------------------------- extension: background worker, tab storage
Tabs == {1, 2}

\* no analysis_<tabId> key in chrome.storage.local
NoStored == [status |-> "absent", productUrl |-> NullUrl, data |-> NullBody,
             error |-> Null, harmScore |-> NullScore]

\* what a tab's content script can send
TabMessages ==
    {message("ANALYSIS_STARTED", ProductPage, NullBody),
     message("ANALYSIS_ERROR", ProductPage, NullBody)}
        \cup {message("ANALYSIS_COMPLETE", ProductPage, data) :
                  data \in {b \in ResponseBodies : b.hasAnalysis /\ b.overall_score # 0}}

InitTabs ==
    /\ InitPipe({"cosmetics"})
    /\ InitMatchIdle /\ InitCalcIdle /\ InitCacheIdle
    /\ InitCancelIdle /\ InitIdbIdle /\ InitContentIdle
    /\ InitReviewIdle /\ InitSetIdle /\ InitTrackIdle /\ InitSideIdle
    /\ storage = [t \in Tabs |-> NoStored]
    /\ inFlight = [t \in Tabs |-> <<>>]
    /\ tabs = [t \in Tabs |-> [state |-> "open", sent |-> 0]]
    /\ lastComplete = [t \in Tabs |-> NullBody]

\* the content script of an open tab sends a message
TabSends(t) ==
    /\ tabs[t].state = "open"
    /\ tabs[t].sent < MaxMessages
    /\ \E m \in TabMessages : inFlight' = [inFlight EXCEPT ![t] = Append(@, m)]
    /\ tabs' = [tabs EXCEPT ![t].sent = @ + 1]
    /\ UNCHANGED <<storage, lastComplete, priorVars, reviewVars, setVars, trackVars,
                   sideVars>>

\* the onMessage listener handles the next message of the tab: it stores
\* the record under analysis_<tabId>, with tabId = sender.tab.id
HandleMessage(t) ==
    /\ inFlight[t] # <<>>
    /\ LET m == Head(inFlight[t])
       IN  /\ storage' = [storage EXCEPT ![t] = onMessage(m)]
           /\ lastComplete' = IF m.type = "ANALYSIS_COMPLETE"
                              THEN [lastComplete EXCEPT ![t] = m.data]
                              ELSE lastComplete
    /\ inFlight' = [inFlight EXCEPT ![t] = Tail(@)]
    /\ UNCHANGED <<tabs, priorVars, reviewVars, setVars, trackVars, sideVars>>

\* the user closes the tab
CloseTab(t) ==
    /\ tabs[t].state = "open"
    /\ tabs' = [tabs EXCEPT ![t].state = "closing"]
    /\ UNCHANGED <<storage, inFlight, lastComplete, priorVars, reviewVars, setVars,
                   trackVars, sideVars>>

\* the tabs.onRemoved listener: chrome.storage.local.remove(analysis_<tabId>)
OnRemoved(t) ==
    /\ tabs[t].state = "closing"
    /\ tabs' = [tabs EXCEPT ![t].state = "removed"]
    /\ storage' = [storage EXCEPT ![t] = NoStored]
    /\ tabsWithOpenSidePanel' = tabsWithOpenSidePanel \ {t}
    /\ UNCHANGED <<inFlight, lastComplete, priorVars, reviewVars, setVars, sideVars,
                   pollingInterval, poll, panelContext, openCall, openResponse,
                   closedReport>>

NextTabs ==
    \/ \E t \in Tabs : TabSends(t)
    \/ \E t \in Tabs : HandleMessage(t)
    \/ \E t \in Tabs : CloseTab(t)
    \/ \E t \in Tabs : OnRemoved(t)

SpecTabs == InitTabs /\ [][NextTabs]_vars

\* --------------------------- extension: background worker, side panel state
\* a message whose sender has no tab and that carries no tabId
NoTabId == 0
Requesters == Tabs \cup {NoTabId}
OpenKinds == {"message", "action"}
NoCall == [kind |-> "none", state |-> "none"]

respondSuccessAlways(outcome) == "true"

\* the 'success' of the response to OPEN_SIDE_PANEL
respond(outcome) == IF outcome = "resolved" THEN "true" ELSE "false"

InitPanel ==
    /\ InitPipe({"cosmetics"})
    /\ InitMatchIdle /\ InitCalcIdle /\ InitCacheIdle
    /\ InitCancelIdle /\ InitIdbIdle /\ InitContentIdle
    /\ InitReviewIdle /\ InitSetIdle /\ InitTabIdle /\ InitSideIdle
    /\ tabsWithOpenSidePanel = {}
    /\ pollingInterval = FALSE
    /\ poll = <<>>
    /\ panelContext = [t \in Tabs |-> FALSE]
    /\ openCall = [t \in Tabs |-> NoCall]
    /\ openResponse = [r \in Requesters |-> "none"]
    /\ closedReport = [t \in Tabs |-> "none"]

\* OPEN_SIDE_PANEL from a tab, or a click on the toolbar icon:
\* chrome.sidePanel.open({tabId}) is called
OpenRequest(t, kind) ==
    /\ openCall[t].state \notin {"pending", "opened"}
    /\ openCall' = [openCall EXCEPT ![t] = [kind |-> kind, state |-> "pending"]]
    /\ openResponse' = IF kind = "message"
                       THEN [openResponse EXCEPT ![t] = "none"]
                       ELSE openResponse
    /\ UNCHANGED <<tabsWithOpenSidePanel, pollingInterval, poll, panelContext,
                   closedReport, priorVars, reviewVars, setVars, tabVars, sideVars>>

\* OPEN_SIDE_PANEL without a tab id
OpenRequestNoTab ==
    /\ openResponse' = [openResponse EXCEPT ![NoTabId] = respond("no_tab")]
    /\ UNCHANGED <<tabsWithOpenSidePanel, pollingInterval, poll, panelContext, openCall,
                   closedReport, priorVars, reviewVars, setVars, tabVars, sideVars>>

\* the browser opens the panel of the tab: its SIDE_PANEL context exists
PanelOpens(t) ==
    /\ openCall[t].state = "pending"
    /\ openCall' = [openCall EXCEPT ![t].state = "opened"]
    /\ panelContext' = [panelContext EXCEPT ![t] = TRUE]
    /\ UNCHANGED <<tabsWithOpenSidePanel, pollingInterval, poll, openResponse,
                   closedReport, priorVars, reviewVars, setVars, tabVars, sideVars>>

\* the .then callback of chrome.sidePanel.open
OpenResolved(t) ==
    /\ openCall[t].state = "opened"
    /\ openCall' = [openCall EXCEPT ![t].state = "resolved"]
    /\ tabsWithOpenSidePanel' = tabsWithOpenSidePanel \cup {t}
    /\ pollingInterval' = TRUE
    /\ closedReport' = [closedReport EXCEPT ![t] = "none"]
    /\ openResponse' = IF openCall[t].kind = "message"
                       THEN [openResponse EXCEPT ![t] = respond("resolved")]
                       ELSE openResponse
    /\ UNCHANGED <<poll, panelContext, priorVars, reviewVars, setVars, tabVars, sideVars>>

\* the .catch callback of chrome.sidePanel.open
OpenRejected(t) ==
    /\ openCall[t].state = "pending"
    /\ openCall' = [openCall EXCEPT ![t].state = "rejected"]
    /\ openResponse' = IF openCall[t].kind = "message"
                       THEN [openResponse EXCEPT ![t] = respond("rejected")]
                       ELSE openResponse
    /\ UNCHANGED <<tabsWithOpenSidePanel, pollingInterval, poll, panelContext,
                   closedReport, priorVars, reviewVars, setVars, tabVars, sideVars>>

\* the user closes the side panel of the tab
PanelCloses(t) ==
    /\ panelContext[t]
    /\ panelContext' = [panelContext EXCEPT ![t] = FALSE]
    /\ UNCHANGED <<tabsWithOpenSidePanel, pollingInterval, poll, openCall, openResponse,
                   closedReport, priorVars, reviewVars, setVars, tabVars, sideVars>>

\* the interval callback with nothing tracked: stopPolling()
PollStops ==
    /\ pollingInterval
    /\ poll = <<>>
    /\ tabsWithOpenSidePanel = {}
    /\ pollingInterval' = FALSE
    /\ UNCHANGED <<tabsWithOpenSidePanel, poll, panelContext, openCall, openResponse,
                   closedReport, priorVars, reviewVars, setVars, tabVars, sideVars>>

\* the interval callback up to its await: getContexts() is answered with
\* the side panel contexts that exist now
PollTick ==
    /\ pollingInterval
    /\ poll = <<>>
    /\ tabsWithOpenSidePanel # {}
    /\ poll' = <<{t \in Tabs : panelContext[t]}>>
    /\ UNCHANGED <<tabsWithOpenSidePanel, pollingInterval, panelContext, openCall,
                   openResponse, closedReport, priorVars, reviewVars, setVars, tabVars,
                   sideVars>>

\* getContexts() rejects: the catch logs
PollRejects ==
    /\ poll # <<>>
    /\ poll' = <<>>
    /\ UNCHANGED <<tabsWithOpenSidePanel, pollingInterval, panelContext, openCall,
                   openResponse, closedReport, priorVars, reviewVars, setVars, tabVars,
                   sideVars>>

\* the interval callback after its await: every tab tracked now that is
\* not in currentlyOpen is deleted and sent isOpen:false
PollResume ==
    /\ poll # <<>>
    /\ LET currentlyOpen == poll[1]
           closed == tabsWithOpenSidePanel \ currentlyOpen
       IN  /\ tabsWithOpenSidePanel' = tabsWithOpenSidePanel \ closed
           /\ closedReport' =
                  [t \in Tabs |->
                      IF t \in closed
                      THEN IF panelContext[t] THEN "panel_open" ELSE "panel_closed"
                      ELSE closedReport[t]]
    /\ poll' = <<>>
    /\ UNCHANGED <<pollingInterval, panelContext, openCall, openResponse, priorVars,
                   reviewVars, setVars, tabVars, sideVars>>

\* the idle service worker is terminated and started again: the module's
\* variables are initialised anew
Terminate ==
    /\ poll = <<>>
    /\ \A t \in Tabs : openCall[t].state \notin {"pending", "opened"}
    /\ pollingInterval \/ tabsWithOpenSidePanel # {}
    /\ tabsWithOpenSidePanel' = {}
    /\ pollingInterval' = FALSE
    /\ UNCHANGED <<poll, panelContext, openCall, openResponse, closedReport, priorVars,
                   reviewVars, setVars, tabVars, sideVars>>

NextPanel ==
    \/ \E t \in Tabs, kind \in OpenKinds : OpenRequest(t, kind)
    \/ OpenRequestNoTab
    \/ \E t \in Tabs : PanelOpens(t)
    \/ \E t \in Tabs : OpenResolved(t)
    \/ \E t \in Tabs : OpenRejected(t)
    \/ \E t \in Tabs : PanelCloses(t)
    \/ PollStops
    \/ PollTick
    \/ PollRejects
    \/ PollResume
    \/ Terminate

\* the timer keeps firing and getContexts() is answered in the end
SpecPanel ==
    InitPanel /\ [][NextPanel]_vars /\ SF_vars(PollTick) /\ SF_vars(PollResume)

\* ------------------------------------------- extension: SidePanelContainer
\* what can be stored under analysis_<tabId>
StoredEntries == {onMessage(m) : m \in TabMessages} \cup {NoStored}

\* which branch of the template is rendered
screen ==
    CASE loading -> "spinner"
      [] panelError # Null -> "load_error"
      [] currentTabState = NoStored -> "empty"
      [] currentTabState.status = "loading" -> "analysis_loading"
      [] currentTabState.status = "error" -> "analysis_error"
      [] currentTabState.status = "complete" /\ currentTabState.data # NullBody -> "analysis"
      [] OTHER -> "unknown"

\* the component is constructed and onMount has called
\* loadTabState(initialTabId); null and a missing state are NoStored
InitSide ==
    /\ InitPipe({"cosmetics"})
    /\ InitMatchIdle /\ InitCalcIdle /\ InitCacheIdle
    /\ InitCancelIdle /\ InitIdbIdle /\ InitContentIdle
    /\ InitReviewIdle /\ InitSetIdle /\ InitTrackIdle
    /\ storage = [t \in Tabs |-> NoStored]
    /\ inFlight = <<>>
    /\ tabs = <<>>
    /\ lastComplete = <<>>
    /\ currentTabId = 1
    /\ currentTabState = NoStored
    /\ loading = TRUE
    /\ panelError = Null
    /\ reads = {1}
    /\ listening = FALSE
    /\ lastRead = "none"

\* loadTabState up to its await
loadTabState(tabId) ==
    /\ currentTabId' = tabId
    /\ reads' = reads \cup {tabId}

\* tabs.onActivated
TabActivated(t) ==
    /\ listening
    /\ loadTabState(t)
    /\ UNCHANGED <<currentTabState, loading, panelError, listening, lastRead, storage,
                   inFlight, tabs, lastComplete, priorVars, reviewVars, setVars, trackVars>>

\* tabs.onUpdated with a new URL
TabUpdated(t, isProductPage) ==
    /\ listening
    /\ t = currentTabId
    /\ IF isProductPage
       THEN /\ loadTabState(t)
            /\ UNCHANGED <<currentTabState, loading>>
       ELSE /\ currentTabState' = NoStored
            /\ loading' = FALSE
            /\ UNCHANGED <<currentTabId, reads>>
    /\ UNCHANGED <<panelError, listening, lastRead, storage, inFlight, tabs, lastComplete,
                   priorVars, reviewVars, setVars, trackVars>>

\* chrome.storage.local.get resolves: loadTabState after its await; the
\* first load of onMount is followed by the registration of the listeners
ReadResolves(t) ==
    /\ t \in reads
    /\ reads' = reads \ {t}
    /\ currentTabState' = storage[t]
    /\ loading' = FALSE
    /\ listening' = TRUE
    /\ lastRead' = "ok"
    /\ UNCHANGED <<currentTabId, panelError, storage, inFlight, tabs, lastComplete,
                   priorVars, reviewVars, setVars, trackVars>>

\* chrome.storage.local.get rejects: the catch of loadTabState
ReadRejects(t) ==
    /\ t \in reads
    /\ reads' = reads \ {t}
    /\ panelError' = "Failed to load analysis data"
    /\ loading' = FALSE
    /\ listening' = TRUE
    /\ lastRead' = "failed"
    /\ UNCHANGED <<currentTabId, currentTabState, storage, inFlight, tabs, lastComplete,
                   priorVars, reviewVars, setVars, trackVars>>

\* the worker writes or removes analysis_<tabId>; storage.onChanged
StorageChanged(t, entry) ==
    /\ entry # storage[t]
    /\ storage' = [storage EXCEPT ![t] = entry]
    /\ IF listening /\ currentTabId = t
       THEN /\ currentTabState' = entry
            /\ loading' = FALSE
       ELSE UNCHANGED <<currentTabState, loading>>
    /\ UNCHANGED <<currentTabId, panelError, reads, listening, lastRead, inFlight, tabs,
                   lastComplete, priorVars, reviewVars, setVars, trackVars>>

\* the Retry button: loadActiveTabState with t the active tab
Retry(t) ==
    /\ screen \in {"load_error", "analysis_error"}
    /\ loadTabState(t)
    /\ UNCHANGED <<currentTabState, loading, panelError, listening, lastRead, storage,
                   inFlight, tabs, lastComplete, priorVars, reviewVars, setVars, trackVars>>

NextSide ==
    \/ \E t \in Tabs : TabActivated(t)
    \/ \E t \in Tabs, isProductPage \in BOOLEAN : TabUpdated(t, isProductPage)
    \/ \E t \in Tabs : ReadResolves(t)
    \/ \E t \in Tabs : ReadRejects(t)
    \/ \E t \in Tabs, entry \in StoredEntries : StorageChanged(t, entry)
    \/ \E t \in Tabs : Retry(t)

SpecSide == InitSide /\ [][NextSide]_vars

\* ------------------------------------------------------------------ claims
calculated == cScore # NoScore

\* C1: for every detection list, confidence and category the Harm
\* Calculator returns an integer score between 0 and 100.
C1_ScoreInRange == calculated => cScore \in 0..MAX_SCORE

C1_Witness ==
    /\ calculated
    /\ rawTotal(cInput.detections, cInput.confidence, cInput.category) > MAX_SCORE
    /\ cScore = MAX_SCORE

\* C2: every non-empty detection list yields a score of at least 25,
\* whatever the confidence and the category.
C2_Floor == (calculated /\ cInput.detections # <<>>) => cScore >= 25

C2_Witness ==
    /\ calculated
    /\ cInput.detections # <<>>
    /\ rawTotal(cInput.detections, cInput.confidence, cInput.category) < 25
    /\ cScore = 25

\* C3: a scrape confidence below 0.3 sends the run down the fallback path
\* (the agent fetches the page itself); the Extractor is never invoked.
C3_LowConfidenceFallback ==
    (pc \notin {"start", "scraped"} /\ scraped.confidence < 30)
    => (path = "fallback" /\ extractCalls = 0 /\ productRecord = "none")

C3_Witness ==
    /\ pc = "done"
    /\ scraped.ok /\ scraped.confidence = 10
    /\ path = "fallback"

\* C4: every detection of an analysis has a canonical_name that exists in
\* the Knowledge Base; an unmatched claim yields a warning, never a detection.
C4_DetectionsInKnowledgeBase ==
    /\ \A i \in 1..Len(detections) : detections[i].canonical_name \in CanonicalNames
    /\ response.kind = "analysis" =>
           \A i \in 1..Len(response.detections) :
               response.detections[i].canonical_name \in CanonicalNames

C6_FailedDiscardsClaims ==
    (agentState = "Failed")
    => /\ error = "AgentBudgetExceeded"
       /\ rawClaims = <<>>
       /\ detections = <<>>
       /\ response.kind = "analysis" => response.detections = <<>>

C6_Witness ==
    /\ agentState = "Failed"
    /\ partialClaims # <<>>
    /\ pc = "done"

\* C7: on a parse failure the Extractor retries exactly once; ExtractionError
\* is raised only after the second failure and no ProductRecord is produced.
C7_RetryOnce ==
    (error = "ExtractionError") => (extractCalls = 2 /\ productRecord = "none")

returned == pc = "done" /\ response.kind = "analysis"

\* index of the entry a raw claim resolves to, 0 when it resolves to none
resolvedIndex(m) == IF isMatch(m.similarity) THEN m.index ELSE 0
resolution(c) == resolvedIndex(bestMatch(normalize(c.substance_name)))
RECURSIVE resolutions(_)
resolutions(cs) ==
    IF cs = <<>> THEN <<>> ELSE <<resolution(Head(cs))>> \o resolutions(Tail(cs))

deduplicated(ds, cs, res) ==
    \A k \in KBIndex :
        LET S == {i \in 1..Len(ds) : ds[i].canonical_name = KnowledgeBase[k].canonical_name}
            R == {j \in 1..Len(cs) : res[j] = k}
        IN  /\ Cardinality(S) <= 1
            /\ (R # {}) =>
                   \E i \in S : /\ \A j \in R : cs[j].confidence <= ds[i].confidence
                                /\ \E j \in R : cs[j].confidence = ds[i].confidence

\* C8: a returned result has at most one detection per canonical name, and
\* it carries the highest confidence among the raw claims that resolved to
\* that Knowledge Base entry.
C8_Deduplicated ==
    returned => deduplicated(response.detections, rawClaims, resolutions(rawClaims))

sameEntryRisingConfidence(cs, res) ==
    /\ Len(cs) >= 2
    /\ res[1] # 0 /\ res[1] = res[2]
    /\ cs[1].confidence < cs[2].confidence

C8_Witness ==
    /\ returned
    /\ sameEntryRisingConfidence(rawClaims, resolutions(rawClaims))
    /\ \E i \in 1..Len(response.detections) :
           response.detections[i].confidence = rawClaims[2].confidence

matched == mVerdict # "pending"
NormalizedCanonicalNames == {normalize(n) : n \in CanonicalNames}

canonicalValues(ds, cs, res) ==
    \A j \in 1..Len(cs) :
        (res[j] # 0) =>
            \E i \in 1..Len(ds) :
                /\ ds[i].canonical_name = KnowledgeBase[res[j]].canonical_name
                /\ ds[i].category = KnowledgeBase[res[j]].category
                /\ ds[i].severity = KnowledgeBase[res[j]].severity_default

\* C10: in a returned result the detection of every accepted claim carries
\* the matched entry's category and severity, whatever the claim guessed.
C10_CanonicalValues ==
    returned => canonicalValues(response.detections, rawClaims, resolutions(rawClaims))

guessDiffers(cs, res) ==
    \E j \in 1..Len(cs) :
        /\ res[j] # 0
        /\ cs[j].category_guess # KnowledgeBase[res[j]].category
        /\ cs[j].severity_guess # KnowledgeBase[res[j]].severity_default

C10_Witness == returned /\ guessDiffers(rawClaims, resolutions(rawClaims))

PipelineStages == {"Fetcher", "Extractor", "Detector", "Validator", "Calculator"}

\* C11: a request whose cache lookup hit is finished with the cached
\* analysis as its response, and no Fetcher, Extractor, Detector, Validator
\* or Calculator step (nor a cache write) ran for it.
C11_HitShortCircuits ==
    \A r \in Requests :
        rq[r].cached.found =>
            /\ rq[r].pc = "done"
            /\ rq[r].response = [kind |-> "analysis",
                                 analysis |-> rq[r].cached.analysis,
                                 cached |-> TRUE]
            /\ rq[r].ran \cap (PipelineStages \cup {"CacheWrite"}) = {}

C11_Witness ==
    \E r \in Requests : rq[r].cached.found /\ rq[r].pc = "done"

\* C12: after a store that returned True, a get for the same url_hash, with
\* no later store for it, returns the stored analysis, whatever else happened
\* in between.
C12_PutThenGet ==
    \A h \in Hashes :
        lastPut[h] # NoAnalysis =>
            /\ get_cached_analysis(cache, h).found
            /\ get_cached_analysis(cache, h).analysis = lastPut[h]

C12_Witness ==
    \E r \in Requests :
        /\ rq[r].response.cached
        /\ rq[r].response.analysis = lastPut[rq[r].url_hash]
        /\ rq[r].response.analysis \in Analyses

sameProduct(u, v) == withoutTracking(u) = withoutTracking(v)

\* C13: a request whose URL differs only in the tracking query from a URL
\* already cached when it looked up gets a cache hit.
C13_TrackingParametersIgnored ==
    \A r \in Requests :
        ( /\ rq[r].pc \notin {"idle", "received"}
          /\ ~rq[r].force_refresh
          /\ \E u \in rq[r].seen : sameProduct(u, rq[r].url) )
        => rq[r].cached.found

fatal(q) ==
    \/ q.error = "ExtractionError"
    \/ q.error = "AgentBudgetExceeded" /\ ~q.degraded

\* C14: a run that ended in ExtractionError or in an unrecovered
\* AgentBudgetExceeded wrote nothing, and every cache entry comes from a
\* request that completed with an analysis.
C14_WrittenOnlyOnSuccess ==
    /\ \A r \in Requests :
           fatal(rq[r]) => ~rq[r].stored /\ "CacheWrite" \notin rq[r].ran
    /\ \A row \in cache :
           \E r \in Requests :
               /\ rq[r].url_hash = row.url_hash
               /\ rq[r].stored
               /\ ~fatal(rq[r])
               /\ rq[r].response.kind = "analysis"

C14_Witness ==
    \E r \in Requests :
        /\ fatal(rq[r])
        /\ rq[r].pc = "failed"
        /\ ~get_cached_analysis(cache, rq[r].url_hash).found

\* C15: when store_analysis failed after the analysis was computed, the
\* request still ends with that analysis as a successful response.
C15_WriteFailureNotFatal ==
    \A r \in Requests :
        ("CacheWrite" \in rq[r].ran /\ ~rq[r].stored) =>
            /\ rq[r].pc = "done"
            /\ rq[r].analysis # NoAnalysis
            /\ rq[r].response = [kind |-> "analysis", analysis |-> rq[r].analysis,
                                 cached |-> FALSE]

C15_Witness ==
    \E r \in Requests :
        /\ "CacheWrite" \in rq[r].ran
        /\ ~rq[r].stored
        /\ rq[r].response.kind = "analysis"

rowsOf(h) == {row \in cache : row.url_hash = h}

\* C16: whatever the interleaving of the requests, the cache holds at most
\* one row per url_hash, and its analysis is, as a whole, the analysis one of
\* the requests that stored for that url_hash computed.
C16_OneWholeEntry ==
    \A h \in Hashes :
        /\ Cardinality(rowsOf(h)) <= 1
        /\ \A row \in rowsOf(h) :
               \E r \in Requests :
                   /\ rq[r].url_hash = h
                   /\ rq[r].stored
                   /\ row.analysis = rq[r].analysis

C16_Witness ==
    /\ \A r \in Requests : rq[r].pc = "done" /\ rq[r].stored /\ ~rq[r].force_refresh
    /\ \A r \in Requests : "Fetcher" \in rq[r].ran /\ "CacheLookup" \in rq[r].ran
    /\ rq["r1"].url_hash = rq["r2"].url_hash
    /\ rq["r1"].analysis # rq["r2"].analysis
    /\ Cardinality(rowsOf(rq["r1"].url_hash)) = 1

written(h) == lastPut[h] # NoAnalysis

\* the part of C17 shared by its two readings: an entry once written is
\* present at every later time, and a get for its url_hash hits
neverExpires ==
    /\ \A h \in Hashes : written(h) => get_cached_analysis(cache, h).found
    /\ \A r \in Requests :
           ( /\ rq[r].pc \notin {"idle", "received"}
             /\ ~rq[r].force_refresh
             /\ rq[r].url \in rq[r].seen )
           => rq[r].cached.found

ended == pc \in {"done", "failed"}

C20_MalformedUrlRejected ==
    \A r \in Requests :
        (rq[r].pc # "idle" /\ ~wellFormed(rq[r].url)) =>
            /\ rq[r].pc \in {"received", "rejected"}
            /\ rq[r].ran = {}

onePFAS == [category |-> "persistent_chemical", severity |-> 10]

withOneMorePFAS == calculate(Append(cInput.detections, onePFAS), cInput.confidence,
                             cInput.category)

\* C21: for the same confidence and category, the score of a detection list
\* with one more persistent-chemical detection is never below the score of
\* the list itself.
C21_MonotoneInPFAS == calculated => withOneMorePFAS >= cScore

C21_Witness ==
    /\ calculated
    /\ cInput.detections # <<>>
    /\ cScore < withOneMorePFAS
    /\ withOneMorePFAS = MAX_SCORE

allergenPoints(v) == detectionPoints([category |-> "allergen", severity |-> v])

\* points is the integer part of the line through (1, 5) and (10, 30) at v
onAllergenLine(v, points) ==
    /\ 9 * (points - ALLERGEN_MIN_POINTS)
           <= (v - 1) * (ALLERGEN_MAX_POINTS - ALLERGEN_MIN_POINTS)
    /\ (v - 1) * (ALLERGEN_MAX_POINTS - ALLERGEN_MIN_POINTS)
           < 9 * (points - ALLERGEN_MIN_POINTS + 1)

isAllergen(d) == d.category = "allergen"

scenarioB == [detections |-> <<onePFAS>>, confidence |-> 90, category |-> "cosmetics"]

\* C23: one persistent-chemical detection, confidence 0.9, category
\* cosmetics: the score is exactly 40.
C23_ScenarioB == (calculated /\ cInput = scenarioB) => cScore = 40

C23_Witness == calculated /\ cInput = scenarioB /\ cScore = 40

scenarioA == [detections |-> <<>>, confidence |-> 95, category |-> "cosmetics"]

\* C24: no detection, confidence 0.95, category cosmetics: the score is 0.
C24_ScenarioA == (calculated /\ cInput = scenarioA) => cScore = 0

C24_Witness == calculated /\ cInput = scenarioA /\ cScore = 0

\* C25: once the initiating caller has disconnected, no further model call
\* and no further tool call is started; a tool call that was in flight may
\* still complete.
C25_NoCallAfterDisconnect ==
    [][~connected =>
           /\ iterations' = iterations
           /\ extractCalls' = extractCalls
           /\ agentState' = "AwaitingTool" => agentState = "AwaitingTool"]_vars

C25_Witness ==
    /\ ~connected
    /\ pc = "cancelled"
    /\ iterations \in 1..(MAX_ITERATIONS - 1)
    /\ cost <= COST_BUDGET

getReturned == getCall.phase = "returned"

\* C26: CacheManager.get(url) never returns an analysis whose timestamp is
\* more than 30 days old: for such an entry it returns null and the entry is
\* deleted; for a younger entry it returns the data last written by
\* set(url, data).
C26_NoExpiredAnalysis ==
    getReturned =>
        LET cached == getCall.cached
        IN  /\ getCall.result # Null =>
                /\ cached.found
                /\ getCall.age <= CACHE_TTL
            /\ (cached.found /\ getCall.age > CACHE_TTL) =>
                /\ getCall.result = Null
                /\ idb[getCall.url] # cached
            /\ (cached.found /\ getCall.age <= CACHE_TTL) =>
                /\ getCall.result = cached.data
                /\ getCall.result = getCall.lastSetAtRead

C26_Witness ==
    /\ getReturned
    /\ getCall.cached.found
    /\ getCall.age = CACHE_TTL + 1
    /\ getCall.result = Null
    /\ idb[getCall.url] = NoCached
    /\ \E u \in CachedURLs : idb[u].found /\ dateNow - idb[u].timestamp = CACHE_TTL

\* C27: for an ANALYSIS_COMPLETE message whose analysis.overall_score is in
\* 0..100, the harmScore stored for the tab is 100 - overall_score, the
\* value getHarmScore and the content-script button compute.
C27_StoredHarmScore ==
    ( /\ tabAnalysis.status = "complete"
      /\ tabAnalysis.data.hasAnalysis
      /\ tabAnalysis.data.overall_score \in 0..100 )
    => tabAnalysis.harmScore = <<getHarmScore(tabAnalysis.data.overall_score)>>

types(sent) == [k \in 1..Len(sent) |-> sent[k].type]

\* C28: a run sends ANALYSIS_STARTED first and then exactly one terminal
\* message, ANALYSIS_COMPLETE or ANALYSIS_ERROR, never both.
C28_OneTerminalMessage ==
    \A i \in 1..Len(runs) :
        /\ runs[i].stage # "done" => types(runs[i].sent) = <<"ANALYSIS_STARTED">>
        /\ runs[i].stage = "done" =>
               types(runs[i].sent) \in
                   {<<"ANALYSIS_STARTED", "ANALYSIS_COMPLETE">>,
                    <<"ANALYSIS_STARTED", "ANALYSIS_ERROR">>}

\* C29: the productUrl of a run's terminal message is the productUrl of its
\* ANALYSIS_STARTED message, also across an SPA navigation.
C29_SameProductUrl ==
    \A i \in 1..Len(runs) :
        \A k \in 1..Len(runs[i].sent) :
            runs[i].sent[k].productUrl = runs[i].sent[1].productUrl

\* C30: a trigger button present on the product page the script is
\* initialised on shows the harm score of the analysis of that page's URL.
C30_ButtonOfCurrentProduct ==
    ( /\ triggerButton.exists
      /\ triggerButton.attached
      /\ currentProductUrl = location )
    => triggerButton.analysisOf = location

setCompleted == setCall.phase = "completed"

\* C38: after setTabAnalysis completes, a field present in the argument has
\* the supplied value in storage, an explicit null included, and a field
\* absent from it keeps its previously stored value.
C38_SuppliedFieldsStored ==
    setCompleted =>
        \A f \in FieldNames :
            /\ setCall.state[f] # Undefined => setCall.inStorage[f] = setCall.state[f]
            /\ (setCall.state[f] = Undefined /\ setCall.existing # NoExisting) =>
                   setCall.inStorage[f] = setCall.existing[f]

fetchReturned == fetchCall.phase = "returned"

C40_ResultConsistent ==
    fetchReturned =>
        LET result == fetchCall.result
        IN  /\ result.success <=> result.pagesLoaded > 0
            /\ result.html = [k \in 1..result.pagesLoaded |-> k]

C40_Witness ==
    /\ fetchReturned
    /\ fetchCall.result.error = "network_error"
    /\ fetchCall.result.success
    /\ fetchCall.result.pagesLoaded = 2
    /\ Len(fetchCall.requests) = 3

\* C31: the value stored under analysis_<tabId>: 'loading' has data, error
\* and harmScore null; 'error' has data and harmScore null; 'complete' has
\* error null and the payload of the tab's last ANALYSIS_COMPLETE as data.
C31_StoredStateShape ==
    \A t \in Tabs :
        LET entry == storage[t]
        IN  /\ entry.status = "loading" =>
                /\ entry.data = NullBody
                /\ entry.error = Null
                /\ entry.harmScore = NullScore
            /\ entry.status = "error" =>
                /\ entry.data = NullBody
                /\ entry.harmScore = NullScore
            /\ entry.status = "complete" =>
                /\ entry.error = Null
                /\ entry.data = lastComplete[t]

C31_Witness ==
    \E t \in Tabs :
        /\ storage[t].status = "error"
        /\ lastComplete[t] # NullBody
        /\ \E u \in Tabs : storage[u].status = "complete" /\ storage[u].data # lastComplete[t]

\* C32: once a tab is closed and every message sent from it is handled,
\* storage holds no analysis_<tabId> entry for it.
C32_ClosedTabLeavesNoEntry ==
    \A t \in Tabs :
        (tabs[t].state = "removed" /\ inFlight[t] = <<>>) => storage[t] = NoStored

\* C33: the polling loop stops tracking a tab and sends it isOpen:false
\* only when no side panel context of the tab exists at that moment.
C33_ReportedClosedOnlyWhenClosed ==
    \A t \in Tabs : closedReport[t] # "panel_open"

\* C34: after the side panel of a tracked tab is closed, the worker
\* eventually sends the tab isOpen:false (unless the panel is open again).
C34_ClosedPanelReported ==
    \A t \in Tabs :
        (t \in tabsWithOpenSidePanel /\ ~panelContext[t])
            ~> (closedReport[t] # "none" \/ panelContext[t])

C35_StateOfCurrentTab ==
    (reads = {} /\ currentTabState # NoStored) =>
        currentTabState = storage[currentTabId]

\* C36: once a storage read has failed, a later loadTabState whose read
\* succeeds makes the panel render the loaded state, not the load error.
C36_LoadClearsError ==
    [][(panelError # Null /\ reads' # reads /\ reads' \subseteq reads /\ lastRead' = "ok") =>
           screen' # "load_error"]_vars

====
